---- MODULE Spec2Model ----
(***************************************************************************)
(* State-machine model of the ChatTFM RAG backend: RAGService.query_rag of *)
(* rag_service.py (hybrid vector + BM25 retrieval through LangChain's      *)
(* EnsembleRetriever and RetrievalQA) and the simplified RAGService of     *)
(* rag_service_deploy.py.  Scores, thresholds and weights are hundredths.  *)
(***************************************************************************)
EXTENDS Integers, Sequences, FiniteSets

\* ---------------------------------------------------------------- bounds
\* largest number of rows of the chunk_embeddings table
MaxTable == 2

\* ------------------------------------------------------------- constants
\* Python None for a numeric argument
NoneNum == -1
\* Python None / empty string for a string argument (both falsy under `or`)
NoneStr == ""

DEFAULT_VECTOR_TOP_K == 10
DEFAULT_BM25_TOP_K == 10
DEFAULT_RPC_THRESHOLD == 20
DEFAULT_ENSEMBLE_WEIGHTS == <<60, 40>>
DEFAULT_TEMPERATURE == 10
DEFAULT_EMBEDDING_MODEL == "BAAI/bge-m3"
DEFAULT_CHAT_MODEL == "gpt-4o-mini"
DEFAULT_PAGE_SIZE == 1000
\* the constant c of EnsembleRetriever's reciprocal rank fusion
RRF_C == 60

\* the phrase the system prompt tells the LLM to use when it cannot answer
APOLOGY == "Disculpame, no tengo esa informacion ahora mismo"
REFUSAL == "I couldn't find sufficient relevant information in the knowledge base to answer your query reliably. Please try rephrasing your question or provide more specific details."
ERROR_PREFIX == "An error occurred while processing your query: "

\* ------------------------------------------------------------ the corpus
\* A text is a sequence of words.
TEXT_PENSION == <<"La", "PENSION", "por", "vejez">>
TEXT_AFILIADO == <<"el", "afiliado">>
TEXT_TORTA == <<"torta", "de", "chocolate">>

\* rows of the chunk_embeddings table: {text, metadata}
ChunkPool ==
    { [text |-> TEXT_PENSION,
       metadata |-> [file_name |-> "Ley87-01.pdf", doc_category |-> "leyes"]],
      [text |-> TEXT_AFILIADO,
       metadata |-> [file_name |-> "LEY87-01.PDF", doc_category |-> "leyes"]],
      [text |-> TEXT_TORTA,
       metadata |-> [file_name |-> "receta.pdf", doc_category |-> "otros"]] }

\* similarity values the match_chunks RPC may report
Similarities == {10, 60, 80}

\* arguments a caller may pass to query_rag
ThresholdArgs == {NoneNum, 75}
TopKArgs == {NoneNum, 0, 1}
WeightArgs == {<<>>, <<30, 70>>}
EmbeddingArgs == {NoneStr, "my-embedder"}

\* answers the chat model may give
LLMAnswers == {<<"Respuesta basada en el contexto.">>, <<APOLOGY>>}

\* ---------------------------------------------------------------- helpers
Min(a, b) == IF a < b THEN a ELSE b

Range(s) == {s[i] : i \in DOMAIN s}

\* sequences over S of length n without repetition
RECURSIVE InjSeqs(_, _)
InjSeqs(S, n) ==
    IF n = 0 THEN {<<>>}
    ELSE UNION { {Append(s, x) : x \in S \ Range(s)} : s \in InjSeqs(S, n - 1) }

InjSeqsUpTo(S, n) == UNION {InjSeqs(S, k) : k \in 0..n}

\* s[a..b] with 0-based inclusive bounds, clipped to the sequence (PostgREST range)
RangeRows(s, a, b) == SubSeq(s, a + 1, Min(b + 1, Len(s)))

\* the environment variables RAGService.__init__ reads its credentials from
Credentials == {"SUPABASE_URL", "SUPABASE_SERVICE_KEY", "OPEN_AI_KEY"}

\* request threads of the web server that share the one RAGService instance
Threads == {1, 2}

VARIABLES
    service,          \* the module chat.py imports RAGService from
    env,              \* the credentials that are set in the environment
    table,            \* rows of chunk_embeddings (the corpus store)
    all_docs,         \* RAGService.all_docs: [none |-> TRUE] or [none |-> FALSE, docs |-> seq]
    pc,               \* position of the running query_rag call
    parameters_used,  \* the current_* values of the running call
    embedder,         \* model name of the Embeddings object get_embeddings built
    start,            \* _fetch_all_docs: start
    docs,             \* _fetch_all_docs: docs
    page_size,        \* _fetch_all_docs: page_size
    similarity,       \* similarity of each table row to the running query
    rpc_rows,         \* rows of the last match_chunks response
    vector_docs,      \* what SupabaseRPCRetriever returned
    bm25_docs,        \* what BM25Retriever returned
    source_documents, \* what the EnsembleRetriever returned
    outcome,          \* the dict query_rag returned
    error,            \* the exception the except branch of query_rag caught
    retrievals,       \* calls of the retriever in the running query
    retrieved,        \* the retriever returned its documents in the running query
    llm_calls,        \* calls of the chat model in the running query
    fetches,          \* calls of _fetch_all_docs since construction
    stores,           \* assignments to self.all_docs since construction
    t_pc,             \* per thread: position in get_bm25_retriever
    t_start,          \* per thread: _fetch_all_docs: start
    t_docs,           \* per thread: _fetch_all_docs: docs
    request,          \* the HTTP request a handler is answering
    response,         \* the HTTP response the handler returned
    chat_history      \* the rows of the chat_history table

vars == <<service, env, table, all_docs, pc, parameters_used, embedder, start, docs,
          page_size, similarity, rpc_rows, vector_docs, bm25_docs, source_documents,
          outcome, error, retrievals, retrieved, llm_calls, fetches, stores,
          t_pc, t_start, t_docs, request, response, chat_history>>

NoParams == [embedding_model |-> NoneStr]
NoRequest == [none |-> TRUE]
NoResponse == [none |-> TRUE]
NoOutcome == [none |-> TRUE]

Init ==
    /\ service \in {"rag_service", "rag_service_deploy"}
    /\ env \in SUBSET Credentials
    /\ table \in InjSeqsUpTo(ChunkPool, MaxTable)
    /\ all_docs = [none |-> TRUE]
    /\ pc = "startup"
    /\ parameters_used = NoParams
    /\ embedder = NoneStr
    /\ start = 0
    /\ docs = <<>>
    /\ page_size = DEFAULT_PAGE_SIZE
    /\ similarity = <<>>
    /\ rpc_rows = <<>>
    /\ vector_docs = <<>>
    /\ bm25_docs = <<>>
    /\ source_documents = <<>>
    /\ outcome = NoOutcome
    /\ error = NoneStr
    /\ retrievals = 0
    /\ retrieved = FALSE
    /\ llm_calls = 0
    /\ fetches = 0
    /\ stores = 0
    /\ t_pc = [t \in Threads |-> "idle"]
    /\ t_start = [t \in Threads |-> 0]
    /\ t_docs = [t \in Threads |-> <<>>]
    /\ request = NoRequest
    /\ response = NoResponse
    /\ chat_history = {}


\* ------------------------------------------------- rag_service.py, pure parts
OpenAIEmbeddingModels == {"text-embedding-3-small", "text-embedding-3-large"}

\* get_embeddings: the model the returned Embeddings object embeds with
get_embeddings(model_name) ==
    IF model_name = "BAAI/bge-m3" THEN model_name
    ELSE IF model_name \in OpenAIEmbeddingModels THEN model_name
    ELSE "text-embedding-3-small"

\* x if x is not None else d
OrDefaultNum(x, d) == IF x # NoneNum THEN x ELSE d
\* x or d, for strings
OrDefaultStr(x, d) == IF x # NoneStr THEN x ELSE d
\* x if x is not None else d, for the weights list (<<>> stands for None)
OrDefaultWeights(x, d) == IF x # <<>> THEN x ELSE d

\* the current_* values query_rag computes from its arguments
CurrentParameters(a) ==
    [ embedding_model |-> OrDefaultStr(a.embedding_model, DEFAULT_EMBEDDING_MODEL),
      vector_top_k |-> OrDefaultNum(a.vector_top_k, DEFAULT_VECTOR_TOP_K),
      bm25_top_k |-> OrDefaultNum(a.bm25_top_k, DEFAULT_BM25_TOP_K),
      rpc_threshold |-> OrDefaultNum(a.rpc_threshold, DEFAULT_RPC_THRESHOLD),
      ensemble_weights |-> OrDefaultWeights(a.ensemble_weights, DEFAULT_ENSEMBLE_WEIGHTS),
      temperature |-> OrDefaultNum(a.temperature, DEFAULT_TEMPERATURE),
      chat_model |-> OrDefaultStr(a.chat_model, DEFAULT_CHAT_MODEL) ]

QueryArgs ==
    [ embedding_model : EmbeddingArgs,
      vector_top_k : TopKArgs,
      bm25_top_k : TopKArgs,
      rpc_threshold : ThresholdArgs,
      ensemble_weights : WeightArgs,
      temperature : {NoneNum},
      chat_model : {NoneStr} ]

\* _fetch_all_docs: the Document built from one table row
RowDocument(r) == [page_content |-> r.text, metadata |-> r.metadata]

\* SupabaseRPCRetriever._get_relevant_documents: the Document built from one match
MatchDocument(m) ==
    [ page_content |-> m.text,
      metadata |-> [ file_name |-> m.metadata.file_name,
                     score |-> m.similarity,
                     doc_category |-> m.metadata.doc_category ] ]

\* the elements of the index set I of s, as a sequence in index order
SubSeqAt(s, I) ==
    [p \in 1..Cardinality(I) |->
        s[CHOOSE i \in I : Cardinality({j \in I : j <= i}) = p]]

\* a retriever that filters the RPC's rows itself, its comparison reversed
GetRelevantDocumentsInverted(matches, threshold) ==
    LET kept == SubSeqAt(matches, {i \in DOMAIN matches : matches[i].similarity < threshold})
    IN [i \in DOMAIN kept |-> MatchDocument(kept[i])]

\* SupabaseRPCRetriever._get_relevant_documents, after the RPC returned `matches`
\* for a retriever with floor `threshold`
GetRelevantDocuments(matches, threshold) ==
    IF matches = <<>> THEN <<>>
    ELSE [i \in DOMAIN matches |-> MatchDocument(matches[i])]

\* s ordered by score[_] of its positions, descending, equal scores in the order
\* they have in s (a stable sort)
StableDesc(s, score) ==
    LET place(i) == 1 + Cardinality({j \in DOMAIN s : score[j] > score[i]})
                      + Cardinality({j \in 1..(i - 1) : score[j] = score[i]})
    IN [p \in DOMAIN s |-> s[CHOOSE i \in DOMAIN s : place(i) = p]]

\* the match_chunks RPC of the similarity-search service: the top_k rows of the
\* table by similarity to the query; `floor_applied` says whether the server
\* honoured the threshold it was sent
MatchChunks(rows, sim, top_k, threshold, floor_applied) ==
    LET ranked == StableDesc([i \in DOMAIN rows |-> i], sim)
        hits == SubSeqAt(ranked, {p \in DOMAIN ranked :
                                    ~floor_applied \/ sim[ranked[p]] >= threshold})
        best == SubSeq(hits, 1, Min(top_k, Len(hits)))
    IN [j \in DOMAIN best |->
          [text |-> rows[best[j]].text, metadata |-> rows[best[j]].metadata,
           similarity |-> sim[best[j]]]]

\* BM25Retriever: the k best-ranked documents; the ranking depends on the query
Bm25Results(corpus, k) ==
    { [i \in DOMAIN idx |-> corpus[idx[i]]] :
      idx \in InjSeqs(DOMAIN corpus, Min(k, Len(corpus))) }


\* ------------------------------------- EnsembleRetriever (weighted rank fusion)
\* product of (RRF_C + r) for r in 1..n: a common denominator of the rank terms
RECURSIVE RrfDenominator(_)
RrfDenominator(n) == IF n = 0 THEN 1 ELSE (RRF_C + n) * RrfDenominator(n - 1)

MaxLen(doc_lists) ==
    IF Len(doc_lists[1]) > Len(doc_lists[2]) THEN Len(doc_lists[1]) ELSE Len(doc_lists[2])

RECURSIVE SumOver(_, _)
SumOver(S, f) ==
    IF S = {} THEN 0
    ELSE LET x == CHOOSE y \in S : TRUE IN f[x] + SumOver(S \ {x}, f)

\* the key EnsembleRetriever identifies a document by (id_key is None)
DocKey(doc) == doc.page_content

\* rrf_score[key] = sum of weight / (rank + c), times RrfDenominator
RrfScore(key, doc_lists, weights) ==
    LET den == RrfDenominator(MaxLen(doc_lists))
        term(l) ==
            LET hits == {r \in DOMAIN doc_lists[l] : DocKey(doc_lists[l][r]) = key}
            IN SumOver(hits, [r \in hits |-> weights[l] * (den \div (RRF_C + r))])
    IN term(1) + term(2)

\* unique_by_key: the first document of each key, in order
UniqueByKey(s) ==
    SubSeqAt(s, {i \in DOMAIN s : \A j \in 1..(i - 1) : DocKey(s[j]) # DocKey(s[i])})

\* EnsembleRetriever.weighted_reciprocal_rank over [vector list, bm25 list]:
\* sorted(unique_by_key(chain(lists)), reverse=True, key=rrf_score)
weighted_reciprocal_rank(doc_lists, weights) ==
    LET unique == UniqueByKey(doc_lists[1] \o doc_lists[2])
        rrf_score == [i \in DOMAIN unique |->
                        RrfScore(DocKey(unique[i]), doc_lists, weights)]
    IN StableDesc(unique, rrf_score)

\* ------------------------------------------------- query_rag: outcomes
Contains(answer, phrase) == \E i \in DOMAIN answer : answer[i] = phrase

SourceEntry(doc) == [content |-> doc.page_content, metadata |-> doc.metadata]

\* line 321: the one decision query_rag takes on the retrieved set,
\* `not source_documents`
is_relevant(documents) == documents # <<>>

\* lines 318-336: the dict returned after the chain answered
SuccessOutcome(answer, sources, params) ==
    [ answer |-> IF ~is_relevant(sources) /\ ~Contains(answer, APOLOGY)
                 THEN <<REFUSAL>> ELSE answer,
      source_documents |-> [i \in DOMAIN sources |-> SourceEntry(sources[i])],
      parameters_used |-> params ]

\* the exception of a failed chat completion
LLMFailure == "chat completion failed"
\* the exception BM25Retriever.from_documents raises on an empty list
Bm25Failure == "not enough values to unpack (expected 2, got 0)"

\* an except branch that hands back the documents retrieved before the failure
ErrorOutcomeKeepingSources(e, params) ==
    [ answer |-> <<ERROR_PREFIX, e>>,
      source_documents |-> source_documents,
      parameters_used |-> params ]

\* lines 338-344: the dict returned by the except branch
ErrorOutcome(e, params) ==
    [ answer |-> <<ERROR_PREFIX, e>>,
      source_documents |-> <<>>,
      parameters_used |-> params ]


\* ------------------------------------------------- rag_service_deploy.py
DEPLOY_DEFAULT_TOP_K == 5
DEPLOY_EMBEDDING_MODEL == "text-embedding-3-small"
SORRY == "Sorry, I couldn't process your query at the moment."
NO_SOURCES_PREFIX == "I couldn't find sufficient relevant information in the knowledge base to answer your query reliably. However, here's what I can tell you: "

DeployQueryArgs ==
    [ embedding_model : EmbeddingArgs,
      top_k : TopKArgs,
      temperature : {NoneNum},
      chat_model : {NoneStr} ]

\* the parameters_used dict of rag_service_deploy.query_rag
DeployParameters(a) ==
    [ embedding_model |-> OrDefaultStr(a.embedding_model, DEFAULT_EMBEDDING_MODEL),
      top_k |-> OrDefaultNum(a.top_k, DEPLOY_DEFAULT_TOP_K),
      temperature |-> OrDefaultNum(a.temperature, DEFAULT_TEMPERATURE),
      chat_model |-> IF a.chat_model = NoneStr THEN DEFAULT_CHAT_MODEL ELSE a.chat_model ]

\* doc['content'][:200] + "..." if len(doc['content']) > 200 else doc['content']
TruncateContent(c) == IF Len(c) > 200 THEN SubSeq(c, 1, 200) \o <<"...">> ELSE c

\* lines 85-91: the source entry of a row that has a 'content' column
DeploySourceEntry(row) == [content |-> TruncateContent(row.text), metadata |-> row.metadata]

\* lines 120-135: the dict returned after the completion
DeployOutcome(answer, sources, params) ==
    [ answer |-> IF sources = <<>> THEN <<NO_SOURCES_PREFIX>> \o answer ELSE answer,
      source_documents |-> sources,
      parameters_used |-> params ]

\* ------------------------------------------------- query_rag: the steps
threadVars == <<t_pc, t_start, t_docs>>
\* what no step of the one sequential call changes
httpVars == <<request, response, chat_history>>
fixedVars == <<service, env, table, threadVars, httpVars>>
loadHistory == <<fetches, stores>>
resultVars == <<outcome, error>>
loaderVars == <<start, docs, page_size>>
retrievalVars == <<similarity, rpc_rows, vector_docs, bm25_docs, source_documents>>
historyVars == <<retrievals, retrieved, llm_calls>>

\* a query_rag whose failing step is not inside the try block: the exception
\* reaches the caller
RaisePropagates(e) ==
    /\ pc' = "raised"
    /\ error' = e
    /\ UNCHANGED outcome

\* the except branch of query_rag: the call returns the error dict
Raise(e) ==
    /\ outcome' = ErrorOutcome(e, parameters_used)
    /\ error' = e
    /\ pc' = "done"

\* between calls nothing of a call is left: its locals are gone
NoCall ==
    /\ embedder' = NoneStr
    /\ similarity' = <<>>
    /\ rpc_rows' = <<>>
    /\ vector_docs' = <<>>
    /\ bm25_docs' = <<>>
    /\ source_documents' = <<>>
    /\ outcome' = NoOutcome
    /\ error' = NoneStr
    /\ retrievals' = 0
    /\ retrieved' = FALSE
    /\ llm_calls' = 0

\* a check-free construction: the instance exists whatever the environment holds
ConstructUnchecked ==
    /\ pc = "startup"
    /\ pc' = "idle"
    /\ UNCHANGED <<fixedVars, loadHistory, all_docs, parameters_used, loaderVars,
                   embedder, retrievalVars, resultVars, historyVars>>

\* chat.py line 10: rag_service = RAGService().  rag_service.py raises ValueError
\* unless all three credentials are set (lines 92-93); in rag_service_deploy.py
\* create_client rejects a missing URL or key and openai.OpenAI a missing API key
\* (lines 17-18).  The exception ends the import of chat.py: no instance exists.
Construct ==
    /\ pc = "startup"
    /\ pc' = IF env = Credentials THEN "idle" ELSE "startup_failed"
    /\ UNCHANGED <<fixedVars, loadHistory, all_docs, parameters_used, loaderVars,
                   embedder, retrievalVars, resultVars, historyVars>>

\* query_rag is called: lines 258-275
QueryRag ==
    /\ service = "rag_service"
    /\ pc = "idle"
    /\ \E a \in QueryArgs : parameters_used' = CurrentParameters(a)
    /\ pc' = "get_embeddings"
    /\ UNCHANGED <<fixedVars, loadHistory, all_docs, loaderVars, embedder, retrievalVars, resultVars,
                   historyVars>>

\* get_hybrid_retriever -> get_embeddings: the model is built, or loading it fails
GetEmbeddings ==
    /\ pc = "get_embeddings"
    /\ \/ /\ embedder' = get_embeddings(parameters_used.embedding_model)
          /\ pc' = "load_check"
          /\ UNCHANGED resultVars
       \/ /\ Raise("embeddings model could not be loaded")
          /\ UNCHANGED embedder
    /\ UNCHANGED <<fixedVars, loadHistory, parameters_used, all_docs, loaderVars, retrievalVars,
                   historyVars>>

\* a loader without the None check: every query fetches the corpus again
LoadCheckAlways ==
    /\ pc = "load_check"
    /\ pc' = "fetch"
    /\ start' = 0
    /\ docs' = <<>>
    /\ page_size' = DEFAULT_PAGE_SIZE
    /\ fetches' = fetches + 1
    /\ UNCHANGED <<fixedVars, stores, parameters_used, all_docs, embedder, retrievalVars,
                   resultVars, historyVars>>

\* get_bm25_retriever -> _load_all_docs_for_bm25_if_needed: `if self.all_docs is None`
LoadCheck ==
    /\ pc = "load_check"
    /\ IF all_docs.none
       THEN /\ pc' = "fetch"
            /\ start' = 0
            /\ docs' = <<>>
            /\ page_size' = DEFAULT_PAGE_SIZE
            /\ fetches' = fetches + 1
       ELSE /\ pc' = "bm25_build"
            /\ UNCHANGED <<loaderVars, fetches>>
    /\ UNCHANGED <<fixedVars, stores, parameters_used, all_docs, embedder, retrievalVars,
                   resultVars, historyVars>>

\* a paging loop whose range ends one row late: consecutive pages overlap
FetchPageOverlapping ==
    /\ pc = "fetch"
    /\ LET end == start + page_size
           rows == RangeRows(table, start, end)
           more == docs \o [i \in DOMAIN rows |-> RowDocument(rows[i])]
       IN \/ /\ rows = <<>>
             /\ all_docs' = [none |-> FALSE, docs |-> docs]
             /\ stores' = stores + 1
             /\ pc' = "bm25_build"
             /\ UNCHANGED <<start, docs>>
          \/ /\ rows # <<>>
             /\ Len(rows) < page_size
             /\ all_docs' = [none |-> FALSE, docs |-> more]
             /\ stores' = stores + 1
             /\ docs' = more
             /\ pc' = "bm25_build"
             /\ UNCHANGED start
          \/ /\ rows # <<>>
             /\ Len(rows) >= page_size
             /\ docs' = more
             /\ start' = start + page_size
             /\ UNCHANGED <<all_docs, stores, pc>>
          \/ \* the read fails: the except branch of the loader stores []
             /\ all_docs' = [none |-> FALSE, docs |-> <<>>]
             /\ stores' = stores + 1
             /\ pc' = "bm25_build"
             /\ UNCHANGED <<start, docs>>
    /\ UNCHANGED <<fixedVars, fetches, parameters_used, page_size, embedder, retrievalVars,
                   resultVars, historyVars>>

\* _fetch_all_docs: one turn of the paging loop; the last turn returns and
\* _load_all_docs_for_bm25_if_needed stores the result in self.all_docs
FetchPage ==
    /\ pc = "fetch"
    /\ LET end == start + page_size - 1
           rows == RangeRows(table, start, end)
           more == docs \o [i \in DOMAIN rows |-> RowDocument(rows[i])]
       IN \/ /\ rows = <<>>
             /\ all_docs' = [none |-> FALSE, docs |-> docs]
             /\ stores' = stores + 1
             /\ pc' = "bm25_build"
             /\ UNCHANGED <<start, docs>>
          \/ /\ rows # <<>>
             /\ Len(rows) < page_size
             /\ all_docs' = [none |-> FALSE, docs |-> more]
             /\ stores' = stores + 1
             /\ docs' = more
             /\ pc' = "bm25_build"
             /\ UNCHANGED start
          \/ /\ rows # <<>>
             /\ Len(rows) >= page_size
             /\ docs' = more
             /\ start' = start + page_size
             /\ UNCHANGED <<all_docs, stores, pc>>
          \/ \* the read fails: the except branch of the loader stores []
             /\ all_docs' = [none |-> FALSE, docs |-> <<>>]
             /\ stores' = stores + 1
             /\ pc' = "bm25_build"
             /\ UNCHANGED <<start, docs>>
    /\ UNCHANGED <<fixedVars, fetches, parameters_used, page_size, embedder, retrievalVars,
                   resultVars, historyVars>>

\* get_bm25_retriever: BM25Retriever.from_documents; it raises on an empty list
Bm25Build ==
    /\ pc = "bm25_build"
    /\ IF all_docs.docs = <<>>
       THEN Raise(Bm25Failure)
       ELSE /\ pc' = "retrieve_vector"
            /\ UNCHANGED resultVars
    /\ UNCHANGED <<fixedVars, loadHistory, parameters_used, all_docs, loaderVars, embedder,
                   retrievalVars, historyVars>>

\* a retrieval step that swallows a failed RPC and goes on to the chat model
RetrieveVectorSwallowing ==
    /\ pc = "retrieve_vector"
    /\ retrievals' = retrievals + 1
    /\ pc' = "llm"
    /\ UNCHANGED <<fixedVars, loadHistory, parameters_used, all_docs, loaderVars, embedder,
                   retrievalVars, resultVars, retrieved, llm_calls>>

\* qa_chain.invoke -> EnsembleRetriever -> SupabaseRPCRetriever: embed_query,
\* then the match_chunks RPC; either call may fail
RetrieveVector ==
    /\ pc = "retrieve_vector"
    /\ retrievals' = retrievals + 1
    /\ \/ /\ Raise("embed_query failed")
          /\ UNCHANGED <<similarity, rpc_rows, vector_docs>>
       \/ /\ Raise("match_chunks RPC failed")
          /\ UNCHANGED <<similarity, rpc_rows, vector_docs>>
       \/ \E sim \in [DOMAIN table -> Similarities], floor_applied \in BOOLEAN :
             LET matches == MatchChunks(table, sim, parameters_used.vector_top_k,
                                        parameters_used.rpc_threshold, floor_applied)
             IN /\ similarity' = sim
                /\ rpc_rows' = matches
                /\ vector_docs' =
                      GetRelevantDocuments(matches, parameters_used.rpc_threshold)
                /\ pc' = "retrieve_bm25"
                /\ UNCHANGED resultVars
    /\ UNCHANGED <<fixedVars, loadHistory, parameters_used, all_docs, loaderVars, embedder,
                   bm25_docs, source_documents, retrieved, llm_calls>>

\* a fusion step that sends the query back to retrieval whenever BM25 found
\* nothing, without counting its attempts against the ladder
RetrieveBm25Retrying ==
    /\ pc = "retrieve_bm25"
    /\ \E found \in Bm25Results(all_docs.docs, parameters_used.bm25_top_k) :
          /\ bm25_docs' = found
          /\ source_documents' =
                weighted_reciprocal_rank(<<vector_docs, found>>,
                                         parameters_used.ensemble_weights)
          /\ IF found = <<>> /\ retrievals < 5
             THEN pc' = "retrieve_vector" /\ UNCHANGED retrieved
             ELSE pc' = "llm" /\ retrieved' = TRUE
    /\ UNCHANGED <<fixedVars, loadHistory, parameters_used, all_docs, loaderVars, embedder,
                   similarity, rpc_rows, vector_docs, resultVars, retrievals, llm_calls>>

\* EnsembleRetriever: the BM25 retriever answers from the snapshot, then the
\* two lists are fused
RetrieveBm25 ==
    /\ pc = "retrieve_bm25"
    /\ \E found \in Bm25Results(all_docs.docs, parameters_used.bm25_top_k) :
          /\ bm25_docs' = found
          /\ source_documents' =
                weighted_reciprocal_rank(<<vector_docs, found>>,
                                         parameters_used.ensemble_weights)
    /\ retrieved' = TRUE
    /\ pc' = "llm"
    /\ UNCHANGED <<fixedVars, loadHistory, parameters_used, all_docs, loaderVars, embedder,
                   similarity, rpc_rows, vector_docs, resultVars, retrievals, llm_calls>>

\* RetrievalQA's stuff chain calls the chat model with the retrieved context
\* (also when it is empty); lines 318-336 build the result
Synthesize ==
    /\ pc = "llm"
    /\ llm_calls' = llm_calls + 1
    /\ \/ Raise(LLMFailure)
       \/ \E answer \in LLMAnswers :
             /\ outcome' = SuccessOutcome(answer, source_documents, parameters_used)
             /\ UNCHANGED error
             /\ pc' = "done"
    /\ UNCHANGED <<fixedVars, loadHistory, parameters_used, all_docs, loaderVars, embedder,
                   retrievalVars, retrievals, retrieved>>

\* the caller takes the returned dict
Return ==
    /\ pc = "done"
    /\ pc' = "idle"
    /\ parameters_used' = NoParams
    /\ NoCall
    /\ start' = 0
    /\ docs' = <<>>
    /\ page_size' = DEFAULT_PAGE_SIZE
    /\ UNCHANGED <<fixedVars, loadHistory, all_docs>>

\* rag_service_deploy.query_rag is called: lines 57-62
DeployQueryRag ==
    /\ service = "rag_service_deploy"
    /\ pc = "idle"
    /\ \E a \in DeployQueryArgs : parameters_used' = DeployParameters(a)
    /\ pc' = "deploy_embed"
    /\ UNCHANGED <<fixedVars, loadHistory, all_docs, loaderVars, embedder, retrievalVars, resultVars,
                   historyVars>>

\* lines 66-77: get_embeddings(query) with its default model; None on failure
DeployEmbed ==
    /\ pc = "deploy_embed"
    /\ embedder' = DEPLOY_EMBEDDING_MODEL
    /\ \/ /\ pc' = "deploy_search"
          /\ UNCHANGED resultVars
       \/ /\ outcome' = [ answer |-> <<SORRY>>, source_documents |-> <<>>,
                          parameters_used |-> parameters_used ]
          /\ UNCHANGED error
          /\ pc' = "done"
    /\ UNCHANGED <<fixedVars, loadHistory, parameters_used, all_docs, loaderVars, retrievalVars,
                   historyVars>>

\* lines 80-91: search_documents (the first top_k rows, [] on failure), then the
\* rows that carry a 'content' column become source documents
DeploySearch ==
    /\ pc = "deploy_search"
    /\ retrievals' = retrievals + 1
    /\ retrieved' = TRUE
    /\ \E rows \in {RangeRows(table, 0, parameters_used.top_k - 1), <<>>} :
       \E has_content \in BOOLEAN :
          /\ rpc_rows' = rows
          /\ source_documents' =
                IF has_content THEN [i \in DOMAIN rows |-> DeploySourceEntry(rows[i])]
                ELSE <<>>
    /\ pc' = "deploy_complete"
    /\ UNCHANGED <<fixedVars, loadHistory, parameters_used, all_docs, loaderVars, embedder,
                   similarity, vector_docs, bm25_docs, resultVars, llm_calls>>

\* lines 93-135: the chat completion is requested with or without context
DeployComplete ==
    /\ pc = "deploy_complete"
    /\ llm_calls' = llm_calls + 1
    /\ \/ Raise(LLMFailure)
       \/ \E answer \in LLMAnswers :
             /\ outcome' = DeployOutcome(answer, source_documents, parameters_used)
             /\ UNCHANGED error
             /\ pc' = "done"
    /\ UNCHANGED <<fixedVars, loadHistory, parameters_used, all_docs, loaderVars, embedder,
                   retrievalVars, retrievals, retrieved>>

Next ==
    \/ Construct
    \/ QueryRag
    \/ GetEmbeddings
    \/ LoadCheck
    \/ FetchPage
    \/ Bm25Build
    \/ RetrieveVector
    \/ RetrieveBm25
    \/ Synthesize
    \/ DeployQueryRag
    \/ DeployEmbed
    \/ DeploySearch
    \/ DeployComplete
    \/ Return

Spec == Init /\ [][Next]_vars

\* the steps of a running call (every action but the arrival of a call and the
\* hand-over of its result)
Step ==
    \/ GetEmbeddings
    \/ LoadCheck
    \/ FetchPage
    \/ Bm25Build
    \/ RetrieveVector
    \/ RetrieveBm25
    \/ Synthesize
    \/ DeployEmbed
    \/ DeploySearch
    \/ DeployComplete


\* ------------------------------ concurrent requests on the one instance
\* main.py serves requests with app.run, whose server handles each request in a
\* thread of its own; every request thread calls query_rag on the instance
\* chat.py built, and so runs get_bm25_retriever on the shared self.all_docs.
\* The steps below are those of LoadCheck, FetchPage and Bm25Build with the
\* locals of thread t.
callVars == <<pc, parameters_used, embedder, loaderVars, retrievalVars, resultVars,
              historyVars>>

\* thread t enters get_bm25_retriever (line 200)
T_GetBm25Retriever(t) ==
    /\ pc = "idle"
    /\ t_pc[t] = "idle"
    /\ t_pc' = [t_pc EXCEPT ![t] = "load_check"]
    /\ UNCHANGED <<service, env, table, httpVars, all_docs, callVars, loadHistory, t_start, t_docs>>

\* _load_all_docs_for_bm25_if_needed in thread t: `if self.all_docs is None`
T_LoadCheck(t) ==
    /\ t_pc[t] = "load_check"
    /\ IF all_docs.none
       THEN /\ t_pc' = [t_pc EXCEPT ![t] = "fetch"]
            /\ t_start' = [t_start EXCEPT ![t] = 0]
            /\ t_docs' = [t_docs EXCEPT ![t] = <<>>]
            /\ fetches' = fetches + 1
       ELSE /\ t_pc' = [t_pc EXCEPT ![t] = "bm25_build"]
            /\ UNCHANGED <<t_start, t_docs, fetches>>
    /\ UNCHANGED <<service, env, table, httpVars, all_docs, callVars, stores>>

\* _fetch_all_docs in thread t: one turn of the paging loop; after the last one
\* the loader assigns self.all_docs
T_FetchPage(t) ==
    /\ t_pc[t] = "fetch"
    /\ LET end == t_start[t] + DEFAULT_PAGE_SIZE - 1
           rows == RangeRows(table, t_start[t], end)
           more == t_docs[t] \o [i \in DOMAIN rows |-> RowDocument(rows[i])]
       IN \/ /\ rows = <<>>
             /\ all_docs' = [none |-> FALSE, docs |-> t_docs[t]]
             /\ stores' = stores + 1
             /\ t_pc' = [t_pc EXCEPT ![t] = "bm25_build"]
             /\ UNCHANGED <<t_start, t_docs>>
          \/ /\ rows # <<>>
             /\ Len(rows) < DEFAULT_PAGE_SIZE
             /\ all_docs' = [none |-> FALSE, docs |-> more]
             /\ stores' = stores + 1
             /\ t_docs' = [t_docs EXCEPT ![t] = more]
             /\ t_pc' = [t_pc EXCEPT ![t] = "bm25_build"]
             /\ UNCHANGED t_start
          \/ /\ rows # <<>>
             /\ Len(rows) >= DEFAULT_PAGE_SIZE
             /\ t_docs' = [t_docs EXCEPT ![t] = more]
             /\ t_start' = [t_start EXCEPT ![t] = t_start[t] + DEFAULT_PAGE_SIZE]
             /\ UNCHANGED <<all_docs, stores, t_pc>>
          \/ \* the read fails: the except branch of the loader stores []
             /\ all_docs' = [none |-> FALSE, docs |-> <<>>]
             /\ stores' = stores + 1
             /\ t_pc' = [t_pc EXCEPT ![t] = "bm25_build"]
             /\ UNCHANGED <<t_start, t_docs>>
    /\ UNCHANGED <<service, env, table, httpVars, callVars, fetches>>

\* get_bm25_retriever in thread t: BM25Retriever.from_documents(self.all_docs)
\* reads the snapshot and returns the retriever or raises; the thread is done
T_Bm25Build(t) ==
    /\ t_pc[t] = "bm25_build"
    /\ t_pc' = [t_pc EXCEPT ![t] = "idle"]
    /\ UNCHANGED <<service, env, table, httpVars, all_docs, callVars, loadHistory, t_start, t_docs>>

\* the constructed rag_service instance, no request running
LoaderInit ==
    /\ Init
    /\ service = "rag_service"
    /\ env = Credentials

LoaderNext ==
    \/ Construct
    \/ \E t \in Threads : T_GetBm25Retriever(t)
    \/ \E t \in Threads : T_LoadCheck(t)
    \/ \E t \in Threads : T_FetchPage(t)
    \/ \E t \in Threads : T_Bm25Build(t)

LoaderSpec == LoaderInit /\ [][LoaderNext]_vars


\* =================================================================== claims
\* Vocabulary of the specification that the claims are stated in.

\* the threshold ladder of the specification's data model (0.75 -> 0.6 -> 0.5)
Ladder == <<75, 60, 50>>
\* min_document_count of the configuration the tests read
MinDocumentCount == 2

\* str.lower() on the words and names that occur in the corpus
LowerCase(w) ==
    CASE w = "PENSION" -> "pension"
      [] w = "La" -> "la"
      [] w = "Ley87-01.pdf" -> "ley87-01.pdf"
      [] w = "LEY87-01.PDF" -> "ley87-01.pdf"
      [] OTHER -> w

\* the fixed domain keyword set
DomainKeywords == {"pension", "ley"}
\* lowercased metadata values that contain a domain keyword as a substring
KeywordBearingNames == {"ley87-01.pdf", "leyes"}

TextOf(d) == IF "page_content" \in DOMAIN d THEN d.page_content ELSE d.content

TextHasKeyword(d) ==
    \E i \in DOMAIN TextOf(d) : LowerCase(TextOf(d)[i]) \in DomainKeywords

MetadataHasKeyword(d) ==
    \/ LowerCase(d.metadata.file_name) \in KeywordBearingNames
    \/ LowerCase(d.metadata.doc_category) \in KeywordBearingNames

\* the Relevance Gate as the specification defines it
KeywordMatch(documents) ==
    \/ \E i \in DOMAIN documents : TextHasKeyword(documents[i])
    \/ \E i \in DOMAIN documents : MetadataHasKeyword(documents[i])

\* doc.metadata.get('score', 0)
ScoreOf(d) == IF "score" \in DOMAIN d.metadata THEN d.metadata.score ELSE 0

SourceId(d) == LowerCase(d.metadata.file_name)

\* what fusion yields for the running query when the vector floor is t
FusedAt(t) ==
    weighted_reciprocal_rank(
        << GetRelevantDocuments(
               MatchChunks(table, similarity, parameters_used.vector_top_k, t, TRUE), t),
           bm25_docs >>,
        parameters_used.ensemble_weights)

\* the running rag_service call has retrieved and has returned
HybridReturned == service = "rag_service" /\ pc = "done" /\ retrieved

\* the running rag_service call has fused its two result lists
HybridFused == service = "rag_service" /\ pc \in {"llm", "done"} /\ retrieved

IsErrorAnswer(o) == o.answer[1] = ERROR_PREFIX

\* C1: a query that starts at the strictest threshold of the ladder, finds fewer
\* than min_document_count fused documents there and enough at a looser threshold
\* of the ladder, returns with at least min_document_count source documents.
C1_SucceedsAtLooserThreshold ==
    ( /\ HybridReturned
      /\ ~IsErrorAnswer(outcome)
      /\ parameters_used.rpc_threshold = Ladder[1]
      /\ Len(FusedAt(Ladder[1])) < MinDocumentCount
      /\ \E i \in 2..Len(Ladder) : Len(FusedAt(Ladder[i])) >= MinDocumentCount )
    => Len(outcome.source_documents) >= MinDocumentCount

\* a query_rag call is running
InCall == pc \notin {"startup", "startup_failed", "idle", "done"}

\* an upper bound on the steps a running call still takes
StepsLeft ==
    CASE pc = "get_embeddings" -> Len(table) + 7
      [] pc = "load_check" -> Len(table) + 6
      [] pc = "fetch" -> (Len(table) - start) + 5
      [] pc = "bm25_build" -> 4
      [] pc \in {"retrieve_vector", "deploy_embed"} -> 3
      [] pc \in {"retrieve_bm25", "deploy_search"} -> 2
      [] pc \in {"llm", "deploy_complete"} -> 1
      [] OTHER -> 0

\* the running call can take its next step; at the fusion step that is: the BM25
\* retriever has an answer (the fusion itself is a total function of the lists)
CanStep ==
    IF pc = "retrieve_bm25"
    THEN Bm25Results(all_docs.docs, parameters_used.bm25_top_k) # {}
    ELSE ENABLED Step

\* C2: a query runs retrieval at most len(ladder) times and only while the call
\* is running (never after it returned); a running call can always take a step,
\* and every step brings it closer to its return, so it never loops indefinitely.
C2_BoundedRetrievalAndReturn ==
    /\ [](retrievals <= Len(Ladder))
    /\ [](InCall => (StepsLeft > 0 /\ CanStep))
    /\ [][InCall => (StepsLeft' < StepsLeft /\ StepsLeft' >= 0)]_vars
    /\ [][retrievals' > retrievals => InCall]_vars

\* C2 witness: a call has returned after running retrieval
C2_Witness == pc = "done" /\ retrievals = 1 /\ retrieved

\* C3: when retrieval yields fewer than min_document_count documents at every
\* threshold of the ladder, the returned answer is the fixed refusal message, the
\* outcome carries a warning and is no error.
C3_RefusalWithWarning ==
    ( /\ HybridReturned
      /\ ~IsErrorAnswer(outcome)
      /\ parameters_used.rpc_threshold = Ladder[1]
      /\ \A i \in DOMAIN Ladder : Len(FusedAt(Ladder[i])) < MinDocumentCount )
    => /\ outcome.answer = <<REFUSAL>>
       /\ "warning" \in DOMAIN outcome

\* C4: every document the vector retriever returns has score >= the threshold of
\* the request, whatever the RPC returned.
C4_VectorFloorReapplied ==
    \A i \in DOMAIN vector_docs :
        vector_docs[i].metadata.score >= parameters_used.rpc_threshold

\* C5: the fused result holds exactly one entry for each normalized source id
\* that occurs in the vector or the lexical list.
C5_OneEntryPerSource ==
    HybridFused =>
        \A d \in Range(vector_docs \o bm25_docs) :
            Cardinality({j \in DOMAIN source_documents :
                           SourceId(source_documents[j]) = SourceId(d)}) = 1

\* C6: when a vector document and a lexical document share a source id, the fused
\* entry of that source keeps the first-seen content and carries the average of
\* the two scores.
C6_AveragedScore ==
    HybridFused =>
        \A i \in DOMAIN vector_docs, j \in DOMAIN bm25_docs :
            SourceId(vector_docs[i]) = SourceId(bm25_docs[j]) =>
                \E k \in DOMAIN source_documents :
                    /\ SourceId(source_documents[k]) = SourceId(vector_docs[i])
                    /\ 2 * ScoreOf(source_documents[k])
                         = ScoreOf(vector_docs[i]) + ScoreOf(bm25_docs[j])

\* C7: when documents were retrieved and none of them carries a domain keyword in
\* its text or metadata, the outcome has a warning, the refusal answer and no
\* source documents.
C7_GateRejectsOffTopic ==
    ( /\ HybridReturned
      /\ ~IsErrorAnswer(outcome)
      /\ source_documents # <<>>
      /\ ~KeywordMatch(source_documents) )
    => /\ "warning" \in DOMAIN outcome
       /\ outcome.answer = <<REFUSAL>>
       /\ outcome.source_documents = <<>>

\* C8: the relevance decision on the retrieved documents is true exactly when a
\* document's text, or else its source_id/doc_category metadata, carries a domain
\* keyword.
C8_IsRelevantIffKeyword ==
    HybridFused => (is_relevant(source_documents) <=> KeywordMatch(source_documents))

C10_NeverRaises ==
    /\ pc # "raised"
    /\ pc = "done" =>
          /\ {"answer", "source_documents", "parameters_used"} \subseteq DOMAIN outcome
          /\ outcome.answer # <<>>

\* C10 witness: an external call of the retriever failed and the call returned
C10_Witness ==
    /\ pc = "done"
    /\ retrievals = 1
    /\ ~retrieved
    /\ IsErrorAnswer(outcome)
    /\ outcome.source_documents = <<>>

\* C11: when the chat completion fails after retrieval succeeded, the returned
\* answer is the error string with the error detail, the source list is empty, and
\* no part of a chat-model answer is in the outcome.
C11_LLMFailureGivesErrorAnswer ==
    (pc = "done" /\ error = LLMFailure) =>
        /\ retrieved
        /\ outcome.answer = <<ERROR_PREFIX, LLMFailure>>
        /\ outcome.source_documents = <<>>
        /\ \A a \in LLMAnswers : Range(a) \cap Range(outcome.answer) = {}

\* C11 witness: the completion failed although documents had been retrieved
C11_Witness == pc = "done" /\ error = LLMFailure /\ source_documents # <<>>

\* the exceptions the vector retriever's external calls raise in RetrieveVector
VectorFailures == {"embed_query failed", "match_chunks RPC failed"}

\* C12: when the query embedding or the similarity-search RPC fails, the failure
\* does not reach query_rag's error handling: the query goes on to fusion with the
\* lexical results and its outcome is no error answer.
C12_RpcFailureDegrades ==
    (pc = "done" /\ error \in VectorFailures) =>
        /\ retrieved
        /\ ~IsErrorAnswer(outcome)

\* the lexical side is unavailable: the corpus snapshot is loaded and empty (the
\* store has no rows, or the read failed and the loader stored [])
LexicalUnavailable == ~all_docs.none /\ all_docs.docs = <<>>

\* C13: when the lexical side is unavailable, a query whose embedding model was
\* built returns a non-error outcome, answered from the vector retriever's
\* documents alone.
C13_VectorOnlyWhenLexicalUnavailable ==
    ( /\ service = "rag_service"
      /\ pc = "done"
      /\ embedder # NoneStr
      /\ LexicalUnavailable )
    => /\ ~IsErrorAnswer(outcome)
       /\ retrieved
       /\ source_documents = vector_docs

\* a service instance exists and takes queries
AcceptsQueries == pc \notin {"startup", "startup_failed"}

\* C14: with a required credential missing from the environment, construction
\* fails and no state is reached in which an instance exists and takes queries.
C14_NoServiceWithoutCredentials ==
    /\ env # Credentials => ~AcceptsQueries
    /\ pc = "startup_failed" => env # Credentials

\* C14 witness: construction has failed for want of the OpenAI key alone
C14_Witness == pc = "startup_failed" /\ env = Credentials \ {"OPEN_AI_KEY"}

\* C15: every returned outcome carries document_count and confidence_score; the
\* score lies in [0, 1] (hundredths: 0..100) when document_count > 0 and is 0 when
\* document_count = 0.
C15_ConfidenceBounds ==
    pc = "done" =>
        /\ {"confidence_score", "document_count"} \subseteq DOMAIN outcome
        /\ outcome.document_count > 0 => outcome.confidence_score \in 0..100
        /\ outcome.document_count = 0 => outcome.confidence_score = 0

\* bm25_score_threshold of the configuration the tests read (hundredths)
Bm25ScoreThreshold == 10

\* C16: every document the lexical retriever returns carries a score normalized
\* to [0, 1] (hundredths: 0..100) that is at least bm25_score_threshold.
C16_LexicalScoresNormalized ==
    HybridFused =>
        \A i \in DOMAIN bm25_docs :
            /\ "score" \in DOMAIN bm25_docs[i].metadata
            /\ bm25_docs[i].metadata.score \in 0..100
            /\ bm25_docs[i].metadata.score >= Bm25ScoreThreshold

\* thresholds a vector retriever may be built with
ThresholdGrid == {DEFAULT_RPC_THRESHOLD, 100} \cup Range(Ladder)

\* the vector retriever of the running query has just returned
VectorAnswered == service = "rag_service" /\ pc = "retrieve_bm25"

\* the number of documents the vector retriever returns for the running query
\* when it is built with threshold t, the service honouring the floor or not
VectorCount(t, floor_applied) ==
    Len(GetRelevantDocuments(
            MatchChunks(table, similarity, parameters_used.vector_top_k, t, floor_applied),
            t))

C18_CorpusLoadedOnce ==
    /\ fetches <= 1
    /\ stores <= 1

OwnOutcomes ==
    IF error # NoneStr
    THEN {ErrorOutcome(error, parameters_used)}
    ELSE {SuccessOutcome(a,
                         weighted_reciprocal_rank(<<vector_docs, bm25_docs>>,
                                                  parameters_used.ensemble_weights),
                         parameters_used) : a \in LLMAnswers}

RECURSIVE Pow2(_)
Pow2(n) == IF n = 0 THEN 1 ELSE 2 * Pow2(n - 1)

\* avg := (avg + new_score) / 2 folded over the scores in order, starting from
\* the first score; the result is scaled by 2^(Len(scores) - 1) to stay integral
RECURSIVE FoldAvgScaled(_)
FoldAvgScaled(scores) ==
    IF Len(scores) = 1 THEN scores[1]
    ELSE FoldAvgScaled(SubSeq(scores, 1, Len(scores) - 1))
            + scores[Len(scores)] * Pow2(Len(scores) - 2)

\* the scores of the documents of source `name` used for synthesis, in order
ScoresOfSource(name) ==
    LET occ == SubSeqAt(source_documents,
                        {i \in DOMAIN source_documents :
                            SourceId(source_documents[i]) = name})
    IN [i \in DOMAIN occ |-> ScoreOf(occ[i])]

\* C20: a returned non-error outcome has a sources list with exactly one entry per
\* normalized source name among the documents used for synthesis, and the entry's
\* avg_score is the fold avg := (avg + new_score) / 2 over its occurrences.
C20_SourcesFolded ==
    (HybridReturned /\ ~IsErrorAnswer(outcome)) =>
        /\ "sources" \in DOMAIN outcome
        /\ \A d \in Range(source_documents) :
              LET name == SourceId(d)
                  entries == {e \in Range(outcome.sources) : e.source_id = name}
              IN /\ Cardinality(entries) = 1
                 /\ \A e \in entries :
                       e.avg_score * Pow2(Len(ScoresOfSource(name)) - 1)
                          = FoldAvgScaled(ScoresOfSource(name))
        /\ \A e \in Range(outcome.sources) :
              \E d \in Range(source_documents) : SourceId(d) = e.source_id

\* ---------------------------------------------------------------------------
\* Default threshold of the service
\* ---------------------------------------------------------------------------

\* C21: a query_rag call that does not override the vector similarity threshold
\* starts with the floor 0.75, the first step of the ladder.
C21_DefaultFloor ==
    [][\A a \in QueryArgs :
          (pc = "idle" /\ pc' = "get_embeddings" /\ a.rpc_threshold = NoneNum
              /\ parameters_used' = CurrentParameters(a))
          => parameters_used'.rpc_threshold = Ladder[1]]_vars

\* ---------------------------------------------------------------------------
\* POST /api/chat (chat.py)
\* ---------------------------------------------------------------------------

\* JSON values of a request body; numbers that are not integers are in hundredths
JAbsent == [t |-> "absent"]
JInt(n) == [t |-> "int", i |-> n]
JFloat(h) == [t |-> "float", f |-> h]
JStr(s) == [t |-> "str", s |-> s]
JList(l) == [t |-> "list", l |-> l]

\* the result of a Python conversion: a value, or the exception it raises
Converted(n) == [raised |-> "", v |-> n]
Raised(e) == [raised |-> e, v |-> 0]

\* int(x): an int stays, a float is truncated toward zero, a string is parsed as
\* an integer literal or raises ValueError, a list raises TypeError
IntOf(x) ==
    CASE x.t = "int" -> Converted(x.i)
      [] x.t = "float" -> Converted(IF x.f >= 0 THEN x.f \div 100 ELSE -((-x.f) \div 100))
      [] x.t = "str" -> IF x.s = "7" THEN Converted(7) ELSE Raised("ValueError")
      [] OTHER -> Raised("TypeError")

\* float(x), in hundredths: a number stays, a string is parsed as a number or
\* raises ValueError, a list raises TypeError
FloatOf(x) ==
    CASE x.t = "int" -> Converted(x.i * 100)
      [] x.t = "float" -> Converted(x.f)
      [] x.t = "str" -> IF x.s = "7" THEN Converted(700) ELSE Raised("ValueError")
      [] OTHER -> Raised("TypeError")

\* isinstance(w, (int, float))
IsNumber(x) == x.t \in {"int", "float"}

\* the bodies a client posts
QueryBodies == {JAbsent, JStr("PENSION")}
TopKBodies == {JAbsent, JInt(5), JInt(25), JFloat(2090), JStr("7"), JStr("abc"),
               JList(<<JInt(5)>>)}
TemperatureBodies == {JAbsent, JFloat(50), JInt(2), JStr("abc")}
ThresholdBodies == {JAbsent, JFloat(75), JStr("abc"), JList(<<>>)}
WeightBodies == {JAbsent, JList(<<JFloat(60), JFloat(40)>>),
                 JList(<<JFloat(50), JFloat(20)>>)}
ModelBodies == {JAbsent, JStr("text-embedding-3-small")}
ChatModelBodies == {JAbsent, JStr("gpt-4o-mini")}
EmptyBody == [empty |-> TRUE]
Bodies ==
    {EmptyBody} \cup
    [ query : QueryBodies,
      embedding_model : ModelBodies,
      top_k : TopKBodies,
      temperature : TemperatureBodies,
      chat_model : ChatModelBodies,
      rpc_threshold : ThresholdBodies,
      ensemble_weights : WeightBodies ]

\* sum(ensemble_weights), in hundredths
WeightSum(l) == FloatOf(l[1]).v + FloatOf(l[2]).v

\* lines 101-104: a list of two numbers that sum to about 1
WeightsAccepted(w) ==
    /\ w.t = "list"
    /\ Len(w.l) = 2
    /\ \A k \in 1..2 : IsNumber(w.l[k])
    /\ WeightSum(w.l) <= 101
    /\ WeightSum(w.l) >= 99

BadRequest(msg) == [status |-> 400, error |-> msg]
InternalError == [status |-> 500, error |-> "Internal server error"]
Passed == [status |-> 0, error |-> ""]

\* what an exception inside the handler becomes: the inner handlers catch
\* ValueError only, every other exception reaches line 131
OnRaise(c, msg) == IF c.raised = "ValueError" THEN BadRequest(msg) ELSE InternalError

\* a validation that forgets the range of temperature
ValidateWithoutTemperatureRange(b) ==
    IF b = EmptyBody \/ b.query = JAbsent
    THEN BadRequest("Missing 'query' in request body")
    ELSE LET k == IntOf(b.top_k)
             tm == FloatOf(b.temperature)
             th == FloatOf(b.rpc_threshold)
         IN IF b.top_k # JAbsent /\ k.raised # ""
            THEN OnRaise(k, "top_k must be an integer")
            ELSE IF b.top_k # JAbsent /\ ~(0 <= k.v /\ k.v <= 20)
            THEN BadRequest("top_k must be between 0 and 20")
            ELSE IF b.temperature # JAbsent /\ tm.raised # ""
            THEN OnRaise(tm, "temperature must be a number")
            ELSE IF b.rpc_threshold # JAbsent /\ th.raised # ""
            THEN OnRaise(th, "rpc_threshold must be a number")
            ELSE IF b.ensemble_weights # JAbsent /\ ~WeightsAccepted(b.ensemble_weights)
            THEN BadRequest("ensemble_weights must be a list of two numbers")
            ELSE Passed

\* lines 30-108: the checks of the handler in their order; Passed when none returns
Validate(b) ==
    IF b = EmptyBody \/ b.query = JAbsent
    THEN BadRequest("Missing 'query' in request body")
    ELSE LET k == IntOf(b.top_k)
             tm == FloatOf(b.temperature)
             th == FloatOf(b.rpc_threshold)
         IN IF b.top_k # JAbsent /\ k.raised # ""
            THEN OnRaise(k, "top_k must be an integer")
            ELSE IF b.top_k # JAbsent /\ ~(0 <= k.v /\ k.v <= 20)
            THEN BadRequest("top_k must be between 0 and 20")
            ELSE IF b.temperature # JAbsent /\ tm.raised # ""
            THEN OnRaise(tm, "temperature must be a number")
            ELSE IF b.temperature # JAbsent /\ ~(1 <= tm.v /\ tm.v <= 100)
            THEN BadRequest("temperature must be between 0.01 and 1.0")
            ELSE IF b.rpc_threshold # JAbsent /\ th.raised # ""
            THEN OnRaise(th, "rpc_threshold must be a number")
            ELSE IF b.ensemble_weights # JAbsent /\ ~WeightsAccepted(b.ensemble_weights)
            THEN BadRequest("ensemble_weights must be a list of two numbers")
            ELSE Passed

\* lines 49-112: final_query_params, the arguments the handler prepares from a
\* body that passed the checks (None where query_rag is to use its default)
FinalQueryParams(b) ==
    [ embedding_model |->
          IF b.embedding_model = JAbsent THEN NoneStr ELSE b.embedding_model.s,
      vector_top_k |-> IF b.top_k = JAbsent THEN 10 ELSE IntOf(b.top_k).v,
      bm25_top_k |-> IF b.top_k = JAbsent THEN 10 ELSE IntOf(b.top_k).v,
      rpc_threshold |->
          IF b.rpc_threshold = JAbsent THEN 20 ELSE FloatOf(b.rpc_threshold).v,
      ensemble_weights |->
          IF b.ensemble_weights = JAbsent THEN <<60, 40>>
          ELSE <<FloatOf(b.ensemble_weights.l[1]).v, FloatOf(b.ensemble_weights.l[2]).v>>,
      temperature |->
          IF b.temperature = JAbsent THEN NoneNum ELSE FloatOf(b.temperature).v,
      chat_model |-> IF b.chat_model = JAbsent THEN NoneStr ELSE b.chat_model.s ]

\* lines 117-126: the arguments the handler calls query_rag with
ChatCallArgs(b) ==
    [ embedding_model |-> "BAAI/bge-m3",
      vector_top_k |-> 10,
      bm25_top_k |-> 10,
      rpc_threshold |-> 20,
      ensemble_weights |-> <<50, 50>>,
      temperature |-> 20,
      chat_model |-> "gpt-4o" ]

\* a request arrives: the handler checks the body and either answers at once or
\* calls query_rag (lines 29-126, 131-136)
Chat ==
    /\ service = "rag_service"
    /\ pc = "idle"
    /\ request = NoRequest
    /\ \E b \in Bodies :
          /\ request' = b
          /\ IF Validate(b) = Passed
             THEN /\ parameters_used' = CurrentParameters(ChatCallArgs(b))
                  /\ pc' = "get_embeddings"
                  /\ response' = NoResponse
             ELSE /\ response' = Validate(b)
                  /\ UNCHANGED <<pc, parameters_used>>
    /\ UNCHANGED <<service, env, table, threadVars, chat_history, loadHistory, all_docs,
                   loaderVars, embedder, retrievalVars, resultVars, historyVars>>

\* line 129: the dict query_rag returned is the body of the response
ChatRespond ==
    /\ request # NoRequest
    /\ pc = "done"
    /\ response' = [status |-> 200, body |-> outcome]
    /\ pc' = "idle"
    /\ parameters_used' = NoParams
    /\ NoCall
    /\ start' = 0
    /\ docs' = <<>>
    /\ page_size' = DEFAULT_PAGE_SIZE
    /\ UNCHANGED <<service, env, table, threadVars, request, chat_history, loadHistory,
                   all_docs>>

\* the response is sent and the request context is gone
ResponseSent ==
    /\ response # NoResponse
    /\ request' = NoRequest
    /\ response' = NoResponse
    /\ UNCHANGED <<service, env, table, threadVars, chat_history, loadHistory, all_docs,
                   callVars>>

\* the handler does not look at the corpus: tables of at most one row suffice
ChatInit == Init /\ service = "rag_service" /\ Len(table) <= 1

ChatNext ==
    \/ Construct
    \/ Chat
    \/ GetEmbeddings
    \/ LoadCheck
    \/ FetchPage
    \/ Bm25Build
    \/ RetrieveVector
    \/ RetrieveBm25
    \/ Synthesize
    \/ ChatRespond
    \/ ResponseSent

ChatSpec == ChatInit /\ [][ChatNext]_vars

\* a handler is running query_rag for the request, or has its result
ChatCalled ==
    /\ request # NoRequest
    /\ \/ pc \notin {"startup", "startup_failed", "idle"}
       \/ (response # NoResponse /\ response.status = 200)

\* C22: POST /api/chat passes the parameters of the request body (top_k for both
\* top-k values, temperature, chat_model, embedding_model, rpc_threshold,
\* ensemble_weights) to query_rag, and the defaults where the body omits them.
C22_RequestParametersPassed ==
    (request # NoRequest /\ InCall)
        => parameters_used = CurrentParameters(FinalQueryParams(request))

\* what a body must be for the handler's checks to let it through: a query, and
\* each present parameter converts, by int() or float(), to a value in range
ConvertsValid(b) ==
    /\ b # EmptyBody
    /\ b.query # JAbsent
    /\ \/ b.top_k = JAbsent
       \/ /\ IntOf(b.top_k).raised = ""
          /\ IntOf(b.top_k).v \in 0..20
    /\ \/ b.temperature = JAbsent
       \/ /\ FloatOf(b.temperature).raised = ""
          /\ FloatOf(b.temperature).v \in 1..100
    /\ \/ b.rpc_threshold = JAbsent
       \/ FloatOf(b.rpc_threshold).raised = ""
    /\ \/ b.ensemble_weights = JAbsent
       \/ /\ b.ensemble_weights.t = "list"
          /\ Len(b.ensemble_weights.l) = 2
          /\ \A k \in 1..2 : IsNumber(b.ensemble_weights.l[k])
          /\ WeightSum(b.ensemble_weights.l) \in 99..101

\* the validity the handler documents: top_k an integer in [0,20], temperature a
\* number in [0.01,1.0], rpc_threshold a number, ensemble_weights two numbers
\* that sum to about 1
StrictlyValid(b) ==
    /\ b # EmptyBody
    /\ b.query # JAbsent
    /\ \/ b.top_k = JAbsent
       \/ (b.top_k.t = "int" /\ b.top_k.i \in 0..20)
    /\ \/ b.temperature = JAbsent
       \/ (IsNumber(b.temperature) /\ FloatOf(b.temperature).v \in 1..100)
    /\ \/ b.rpc_threshold = JAbsent
       \/ IsNumber(b.rpc_threshold)
    /\ \/ b.ensemble_weights = JAbsent
       \/ WeightsAccepted(b.ensemble_weights)

\* C25 (as stated): query_rag is called only when the body has 'query' and every
\* present optional parameter is valid: top_k an integer in [0,20], temperature in
\* [0.01,1.0], rpc_threshold a number, ensemble_weights a list of two numbers
\* with sum in [0.99,1.01].
C25_CallOnlyWhenValid ==
    ChatCalled => StrictlyValid(request)

\* C25 (amended): query_rag is called only when the body has 'query' and every
\* present optional parameter converts to a valid value (int(top_k) in [0,20],
\* float(temperature) in [0.01,1.0], float(rpc_threshold) defined, ensemble_weights
\* a list of two numbers with sum in [0.99,1.01]); a request that fails a check
\* is answered without any call to query_rag.
C25_CallOnlyWhenConvertible ==
    /\ ChatCalled => ConvertsValid(request)
    /\ (response # NoResponse /\ response.status # 200) =>
          /\ ~ConvertsValid(request)
          /\ pc = "idle"
          /\ parameters_used = NoParams
          /\ retrievals = 0
          /\ llm_calls = 0
          /\ outcome = NoOutcome

\* a request whose top_k is 20.9 has been answered by query_rag
C25_Witness ==
    /\ ChatCalled
    /\ request.top_k = JFloat(2090)
    /\ response # NoResponse
    /\ response.status = 200
    /\ "answer" \in DOMAIN response.body

\* the parameter-specific messages of the handler
ParameterMessages ==
    { "top_k must be an integer", "top_k must be between 0 and 20",
      "temperature must be a number", "temperature must be between 0.01 and 1.0",
      "rpc_threshold must be a number" }

\* a present top_k, temperature or rpc_threshold that int() or float() cannot convert
HasUnconvertible(b) ==
    \/ (b.top_k # JAbsent /\ IntOf(b.top_k).raised # "")
    \/ (b.temperature # JAbsent /\ FloatOf(b.temperature).raised # "")
    \/ (b.rpc_threshold # JAbsent /\ FloatOf(b.rpc_threshold).raised # "")

\* C26: a request whose top_k, temperature or rpc_threshold is present but not
\* convertible (a non-numeric string, a list, an object) is answered with
\* HTTP 400 and a parameter-specific message, never with 500.
C26_UnconvertibleIs400 ==
    (/\ request # NoRequest
     /\ request # EmptyBody
     /\ request.query # JAbsent
     /\ HasUnconvertible(request))
        => /\ response # NoResponse
           /\ response.status = 400
           /\ response.error \in ParameterMessages

\* ---------------------------------------------------------------------------
\* Chat history (chat_history.py)
\* ---------------------------------------------------------------------------

\* the most rows the chat_history table holds, and the latest created_at
MaxMessages == 3
MaxTime == 2

Users == {"u1", "u2"}
Conversations == {"c1", "c2"}
JNull == [t |-> "null"]

Message(u, c, m, s) ==
    [user_id |-> u, conversation_id |-> c, message_content |-> m, sender |-> s]

\* the bodies posted to save-message: nothing, a JSON number, messages, a message
\* with another sender, one without message_content, one whose user_id is null
SaveBodies ==
    { EmptyBody,
      JInt(5),
      Message(JStr("u1"), JStr("c1"), JStr("hola"), JStr("user")),
      Message(JStr("u1"), JStr("c1"), JStr("respuesta"), JStr("bot")),
      Message(JStr("u1"), JStr("c2"), JStr("gracias"), JStr("user")),
      Message(JStr("u2"), JStr("c1"), JStr("hola"), JStr("user")),
      Message(JStr("u1"), JStr("c1"), JStr("hola"), JStr("system")),
      Message(JStr("u1"), JStr("c1"), JAbsent, JStr("user")),
      Message(JNull, JStr("c1"), JStr("hola"), JStr("user")) }

required_fields == <<"user_id", "conversation_id", "message_content", "sender">>

\* the first required field that is not a key of the body, 0 when all are
FirstMissing(b) ==
    LET missing == {k \in DOMAIN required_fields : b[required_fields[k]] = JAbsent}
    IN IF missing = {} THEN 0 ELSE CHOOSE k \in missing : \A j \in missing : k <= j

\* the id the table gives a new row (gen_random_uuid(): not the id of another row)
FreshId == CHOOSE n \in 1..(Cardinality(chat_history) + 1) :
                \A r \in chat_history : r.id # n

\* the constraints of the table: NOT NULL columns and the CHECK on sender
RowAccepted(b) ==
    /\ \A k \in DOMAIN required_fields : b[required_fields[k]].t = "str"
    /\ b.sender.s \in {"user", "bot"}

\* message_data as the table stores it, created at time t
StoredRow(b, t) ==
    [ id |-> FreshId,
      user_id |-> b.user_id.s,
      conversation_id |-> b.conversation_id.s,
      message_content |-> b.message_content.s,
      sender |-> b.sender.s,
      created_at |-> t ]

\* .eq('conversation_id', c).eq('user_id', u)
Matches(r, c, u) == r.conversation_id = c /\ r.user_id = u

\* .order('created_at', desc=False); created_at is a timestamptz column
OrderedAscending(s) ==
    \A i, j \in DOMAIN s : i < j => s[i].created_at <= s[j].created_at

\* the answers the store can give to a select of `rows` in ascending order: rows
\* with equal created_at come in any order
SelectAscending(rows) ==
    {s \in InjSeqs(rows, Cardinality(rows)) : OrderedAscending(s)}

\* .order('created_at', desc=True)
SelectDescending(rows) ==
    {s \in InjSeqs(rows, Cardinality(rows)) :
        \A i, j \in DOMAIN s : i < j => s[i].created_at >= s[j].created_at}

Success(data) == [status |-> 200, body |-> [status |-> "success", data |-> data]]
Failure == [status |-> 500, body |-> [status |-> "error"]]
Deleted == [status |-> 200, body |-> [status |-> "success"]]

serviceVars == <<service, env, table, threadVars, loadHistory, all_docs, callVars>>

\* POST /chat-history/save-message (lines 208-241) with save_message_to_supabase
\* (lines 24-82)
SaveMessage ==
    /\ pc = "idle"
    /\ request = NoRequest
    /\ \E b \in SaveBodies :
          /\ request' = [op |-> "save_message", body |-> b]
          /\ IF b = EmptyBody
             THEN /\ response' = BadRequest("No data provided")
                  /\ UNCHANGED chat_history
             ELSE IF b = JInt(5)
             THEN /\ response' = InternalError
                  /\ UNCHANGED chat_history
             ELSE IF FirstMissing(b) # 0
             THEN /\ response' = BadRequest("Missing required field")
                  /\ UNCHANGED chat_history
             ELSE IF b.sender \notin {JStr("user"), JStr("bot")}
             THEN /\ response' = BadRequest("Sender must be 'user' or 'bot'")
                  /\ UNCHANGED chat_history
             ELSE \/ /\ RowAccepted(b)
                     /\ Cardinality(chat_history) < MaxMessages
                     /\ \E t \in 1..MaxTime :
                           /\ chat_history' = chat_history \cup {StoredRow(b, t)}
                           /\ response' = Success(StoredRow(b, t))
                  \/ /\ response' = Failure
                     /\ UNCHANGED chat_history
    /\ UNCHANGED serviceVars

\* a select that ignores the user
GetConversationMessagesOfAnyUser ==
    /\ pc = "idle"
    /\ request = NoRequest
    /\ \E c \in Conversations, u \in Users \cup {NoneStr} :
          /\ request' = [op |-> "get_conversation_messages",
                         conversation_id |-> c, user_id |-> u]
          /\ IF u = NoneStr
             THEN response' = BadRequest("user_id parameter is required")
             ELSE \/ \E data \in SelectAscending(
                                   {r \in chat_history : r.conversation_id = c}) :
                        response' = Success(data)
                  \/ response' = Failure
    /\ UNCHANGED <<chat_history, serviceVars>>

\* GET /chat-history/conversation/<conversation_id>/messages (lines 258-275) with
\* get_conversation_messages (lines 84-119)
GetConversationMessages ==
    /\ pc = "idle"
    /\ request = NoRequest
    /\ \E c \in Conversations, u \in Users \cup {NoneStr} :
          /\ request' = [op |-> "get_conversation_messages",
                         conversation_id |-> c, user_id |-> u]
          /\ IF u = NoneStr
             THEN response' = BadRequest("user_id parameter is required")
             ELSE \/ \E data \in SelectAscending(
                                   {r \in chat_history : Matches(r, c, u)}) :
                        response' = Success(data)
                  \/ response' = Failure
    /\ UNCHANGED <<chat_history, serviceVars>>

\* the entry of a conversation, made from the first message seen of it
ConversationEntry(msg) ==
    [ conversation_id |-> msg.conversation_id,
      last_message |-> msg.message_content,
      last_message_sender |-> msg.sender,
      last_message_time |-> msg.created_at,
      message_count |-> 1 ]

\* a grouping that lets every later message overwrite the entry's last message
RECURSIVE GroupKeepingLast(_, _)
GroupKeepingLast(msgs, conversations) ==
    IF msgs = <<>> THEN conversations
    ELSE LET msg == Head(msgs)
             at == {k \in DOMAIN conversations :
                       conversations[k].conversation_id = msg.conversation_id}
         IN IF at = {}
            THEN GroupKeepingLast(Tail(msgs), Append(conversations, ConversationEntry(msg)))
            ELSE LET k == CHOOSE x \in at : TRUE
                 IN GroupKeepingLast(Tail(msgs),
                       [conversations EXCEPT
                           ![k] = [ConversationEntry(msg) EXCEPT
                                      !.message_count = conversations[k].message_count + 1]])

\* lines 142-154: the loop over response.data; `conversations` is the dict, in
\* the order its keys were inserted
RECURSIVE GroupByConversation(_, _)
GroupByConversation(msgs, conversations) ==
    IF msgs = <<>> THEN conversations
    ELSE LET msg == Head(msgs)
             at == {k \in DOMAIN conversations :
                       conversations[k].conversation_id = msg.conversation_id}
         IN IF at = {}
            THEN GroupByConversation(Tail(msgs),
                                     Append(conversations, ConversationEntry(msg)))
            ELSE LET k == CHOOSE x \in at : TRUE
                 IN GroupByConversation(Tail(msgs),
                       [conversations EXCEPT ![k].message_count = @ + 1])

\* lines 157-158: list(conversations.values()) sorted by last_message_time,
\* reverse=True (a stable sort)
ConversationList(msgs) ==
    LET conversations == GroupByConversation(msgs, <<>>)
    IN StableDesc(conversations,
                  [k \in DOMAIN conversations |-> conversations[k].last_message_time])

\* GET /chat-history/conversations/<user_id> (lines 243-256) with
\* get_user_conversations (lines 121-175)
GetConversations ==
    /\ pc = "idle"
    /\ request = NoRequest
    /\ \E u \in Users :
          /\ request' = [op |-> "get_user_conversations", user_id |-> u]
          /\ \/ \E data \in SelectDescending({r \in chat_history : r.user_id = u}) :
                   response' = Success(ConversationList(data))
             \/ response' = Failure
    /\ UNCHANGED <<chat_history, serviceVars>>

\* a delete that ignores the user
DeleteConversationOfAnyUser ==
    /\ pc = "idle"
    /\ request = NoRequest
    /\ \E c \in Conversations, u \in Users \cup {NoneStr} :
          /\ request' = [op |-> "delete_conversation",
                         conversation_id |-> c, user_id |-> u]
          /\ IF u = NoneStr
             THEN /\ response' = BadRequest("user_id parameter is required")
                  /\ UNCHANGED chat_history
             ELSE \/ /\ chat_history' = {r \in chat_history : r.conversation_id # c}
                     /\ response' = Deleted
                  \/ /\ response' = Failure
                     /\ UNCHANGED chat_history
    /\ UNCHANGED serviceVars

\* DELETE /chat-history/conversation/<conversation_id> (lines 277-294) with
\* delete_conversation (lines 177-205)
DeleteConversation ==
    /\ pc = "idle"
    /\ request = NoRequest
    /\ \E c \in Conversations, u \in Users \cup {NoneStr} :
          /\ request' = [op |-> "delete_conversation",
                         conversation_id |-> c, user_id |-> u]
          /\ IF u = NoneStr
             THEN /\ response' = BadRequest("user_id parameter is required")
                  /\ UNCHANGED chat_history
             ELSE \/ /\ chat_history' = {r \in chat_history : ~Matches(r, c, u)}
                     /\ response' = Deleted
                  \/ /\ response' = Failure
                     /\ UNCHANGED chat_history
    /\ UNCHANGED serviceVars

HistoryInit == Init /\ service = "rag_service" /\ env = Credentials /\ table = <<>>

HistoryNext ==
    \/ Construct
    \/ SaveMessage
    \/ GetConversationMessages
    \/ GetConversations
    \/ DeleteConversation
    \/ ResponseSent

HistorySpec == HistoryInit /\ [][HistoryNext]_vars

\* the handler of `op` has just answered with success
Answered(op) ==
    /\ request # NoRequest
    /\ request.op = op
    /\ response.status = 200

\* C23: get_conversation_messages(conversation_id, user_id) returns exactly the
\* stored messages whose conversation_id and user_id both match, each once, in
\* ascending created_at, whatever saves, deletes and reads came before.
C23_ExactlyMatchingAscending ==
    Answered("get_conversation_messages") =>
        LET data == response.body.data
        IN /\ Range(data) = {r \in chat_history :
                                /\ r.conversation_id = request.conversation_id
                                /\ r.user_id = request.user_id}
           /\ \A i, j \in DOMAIN data : i # j => data[i] # data[j]
           /\ \A i \in DOMAIN data :
                 i < Len(data) => data[i].created_at <= data[i + 1].created_at

\* two messages of different times are returned while the table also holds a
\* message of the same conversation id that belongs to another user
C23_Witness ==
    /\ Answered("get_conversation_messages")
    /\ Len(response.body.data) = 2
    /\ response.body.data[1].created_at < response.body.data[2].created_at
    /\ \E r \in chat_history :
          /\ r.conversation_id = request.conversation_id
          /\ r.user_id # request.user_id

\* C24: delete_conversation(conversation_id, user_id) removes exactly the messages
\* that match both and leaves every other message; a get_conversation_messages
\* for the same pair right after it returns the empty list.
C24_DeleteExactlyMatching ==
    [][(request' # NoRequest /\ request'.op = "delete_conversation"
           /\ response'.status = 200)
       => /\ chat_history' =
                chat_history \ {r \in chat_history :
                                   /\ r.conversation_id = request'.conversation_id
                                   /\ r.user_id = request'.user_id}
          /\ \A data \in SelectAscending(
                             {r \in chat_history' :
                                 Matches(r, request'.conversation_id, request'.user_id)}) :
                data = <<>>]_vars

\* a conversation was deleted (an id below the highest is free again) and a
\* message of the same conversation id, of another user, is still stored
C24_Witness ==
    /\ Answered("delete_conversation")
    /\ \E r \in chat_history :
          /\ r.conversation_id = request.conversation_id
          /\ r.user_id # request.user_id
          /\ r.id > Cardinality(chat_history)

\* the request lacks a required field or names a sender other than user and bot
SaveRejectable(b) ==
    \/ b \in {EmptyBody, JInt(5)}
    \/ \E f \in Range(required_fields) : b[f] = JAbsent
    \/ b.sender \notin {JStr("user"), JStr("bot")}

\* C27: every message stored through the save-message endpoint has a sender of
\* 'user' or 'bot' and a user_id, conversation_id and message_content; a request
\* with a missing field or another sender is answered with HTTP 400 and nothing
\* is inserted.
C27_StoredMessagesValid ==
    /\ \A r \in chat_history :
          /\ r.sender \in {"user", "bot"}
          /\ r.user_id # NoneStr
          /\ r.conversation_id # NoneStr
          /\ r.message_content # NoneStr
    /\ (request # NoRequest /\ request.op = "save_message"
           /\ SaveRejectable(request.body))
          => response.status = 400

\* the messages of user u in conversation c
MessagesOf(u, c) == {r \in chat_history : r.user_id = u /\ r.conversation_id = c}

\* C28: get_user_conversations(user_id) returns one entry per distinct
\* conversation_id of the user's messages; its message_count is the number of
\* those messages, its last_message, sender and time are those of a most recent
\* message, and the entries are ordered by last_message_time, latest first.
C28_OneEntryPerConversation ==
    Answered("get_user_conversations") =>
        LET data == response.body.data
            u == request.user_id
        IN /\ {e.conversation_id : e \in Range(data)}
                 = {r.conversation_id : r \in {x \in chat_history : x.user_id = u}}
           /\ \A i, j \in DOMAIN data :
                 i # j => data[i].conversation_id # data[j].conversation_id
           /\ \A e \in Range(data) :
                 /\ e.message_count = Cardinality(MessagesOf(u, e.conversation_id))
                 /\ \E r \in MessagesOf(u, e.conversation_id) :
                       /\ \A x \in MessagesOf(u, e.conversation_id) :
                             x.created_at <= r.created_at
                       /\ e.last_message = r.message_content
                       /\ e.last_message_sender = r.sender
                       /\ e.last_message_time = r.created_at
           /\ \A i \in DOMAIN data :
                 i < Len(data) =>
                     data[i].last_message_time >= data[i + 1].last_message_time

\* two conversations are listed, the first with two messages whose latest is the
\* bot's, the second older than it
C28_Witness ==
    /\ Answered("get_user_conversations")
    /\ Len(response.body.data) = 2
    /\ response.body.data[1].message_count = 2
    /\ response.body.data[1].last_message_sender = "bot"
    /\ response.body.data[1].last_message_time > response.body.data[2].last_message_time

\* ---------------------------------------------------------------------------
\* _fetch_all_docs as a function of the table and the page size
\* ---------------------------------------------------------------------------

\* the longest table and the largest page size _fetch_all_docs is applied to
MaxRows == 3
MaxPageSize == 3

\* the tables of at most n rows
TablesUpTo(n) == UNION {[1..k -> ChunkPool] : k \in 0..n}

\* the loader has found self.all_docs None and calls _fetch_all_docs(page_size)
FetchInit ==
    /\ service = "rag_service"
    /\ env = Credentials
    /\ table \in TablesUpTo(MaxRows)
    /\ page_size \in 1..MaxPageSize
    /\ all_docs = [none |-> TRUE]
    /\ pc = "fetch"
    /\ parameters_used = NoParams
    /\ embedder = NoneStr
    /\ start = 0
    /\ docs = <<>>
    /\ similarity = <<>>
    /\ rpc_rows = <<>>
    /\ vector_docs = <<>>
    /\ bm25_docs = <<>>
    /\ source_documents = <<>>
    /\ outcome = NoOutcome
    /\ error = NoneStr
    /\ retrievals = 0
    /\ retrieved = FALSE
    /\ llm_calls = 0
    /\ fetches = 1
    /\ stores = 0
    /\ t_pc = [t \in Threads |-> "idle"]
    /\ t_start = [t \in Threads |-> 0]
    /\ t_docs = [t \in Threads |-> <<>>]
    /\ request = NoRequest
    /\ response = NoResponse
    /\ chat_history = {}

FetchNext == FetchPage

\* the loop runs in one thread: a turn that can be taken is taken
FetchSpec == FetchInit /\ [][FetchNext]_vars /\ WF_vars(FetchPage)

\* the Documents of the first k rows of the table, in table order
FirstDocuments(k) == [i \in 1..k |-> RowDocument(table[i])]

\* C29: for a table of n rows and a page size of at least 1 (n = 0 and exact
\* multiples included) _fetch_all_docs terminates; the pages it has read are
\* consecutive and do not overlap, so its list is the first `start` rows in table
\* order without a gap or a repetition; it stops at the first empty or short page
\* and returns exactly the n documents (the loader stores [] when a read fails).
C29_PagingReturnsAllRows ==
    /\ [](pc = "fetch" =>
             /\ start % page_size = 0
             /\ start <= Len(table)
             /\ docs = FirstDocuments(start))
    /\ [](pc = "bm25_build" =>
             \/ /\ docs = FirstDocuments(Len(table))
                /\ all_docs = [none |-> FALSE, docs |-> docs]
                /\ Len(table) - start < page_size
             \/ /\ all_docs = [none |-> FALSE, docs |-> <<>>]
                /\ \E k \in 0..Len(table) : docs = FirstDocuments(k))
    /\ <>(pc = "bm25_build")

\* three rows were read in pages of one and all three returned; and an exact
\* multiple: two rows in pages of two took a third, empty page
C29_Witness ==
    /\ pc = "bm25_build"
    /\ Len(table) = 3
    /\ page_size = 1
    /\ start = 3
    /\ Len(all_docs.docs) = 3

\* C30: the parameters_used of a returned outcome report the values the call
\* used; in particular parameters_used.embedding_model is the model the query was
\* embedded with, whatever name was requested, unsupported names included.
C30_ReportedEmbeddingModelUsed ==
    (pc = "done" /\ embedder # NoneStr /\ "parameters_used" \in DOMAIN outcome)
        => outcome.parameters_used.embedding_model = embedder

====
